---- MODULE Spec2Model ----
(***************************************************************************)
(* Model of pytorch_lightning/strategies/single_device.py:                 *)
(* SingleDeviceStrategy, the strategy that handles communication on a      *)
(* single device.  Every method call is one atomic step; a Python          *)
(* exception leaving the method is the outcome "raised".                   *)
(***************************************************************************)
EXTENDS Integers, Sequences, FiniteSets, TLC

\* ------------------------------------------------------------------ bounds
MaxIndex == 0      \* device indices are NoIndex, 0 .. MaxIndex
MaxObj == 1        \* the objects handed to the collectives are 0 .. MaxObj
MaxRank == 1       \* source ranks / process groups passed by callers

\* ------------------------------------------------------- value domains
NoIndex == -1
NoObj == -1

DeviceTypes == {"cpu", "cuda", "xla", "other"}

\* torch.device(type, index)
Devices == [type : DeviceTypes, index : {NoIndex} \cup (0 .. MaxIndex)]

\* torch.device("cpu"), the target of Module.cpu()
CpuDevice == [type |-> "cpu", index |-> NoIndex]

\* placeholders for "no model bound" (self.model is None) and "no device returned"
NoModel == [type |-> "none", index |-> NoIndex]
NoDevice == [type |-> "nodevice", index |-> NoIndex]

Objects == 0 .. MaxObj
ReduceOps == {"mean", "sum"}
Ranks == 0 .. MaxRank
Groups == {NoObj} \cup (0 .. MaxRank)

VARIABLES
    device,        \* self.device
    global_rank,   \* self.global_rank
    local_rank,    \* self.local_rank
    world_size,    \* self.world_size
    model,         \* where self.model resides; NoModel while self.model is None
    available,     \* answer of the hardware-availability query for root_device.type
    device_cache,  \* the accelerator's caching allocator: "empty" or "held"
    lifecycle,     \* "Configured", "Ready", "TornDown"
    op,            \* the last event: the method called (or "init", "connect", "hardware")
    prev_op,       \* the event before the last one
    prev_outcome,  \* how the event before the last one ended
    pre,           \* lifecycle state in which the last method was called
    outcome,       \* "none", "returned", "raised"
    arg,           \* the object passed to the last collective (NoObj otherwise)
    ret_obj,       \* the object returned by the last collective (NoObj otherwise)
    ret_flag,      \* the boolean returned by the last boolean property
    ret_device,    \* the device returned by root_device (NoDevice otherwise)
    steps          \* the effects the last method performed, in order

vars == <<device, global_rank, local_rank, world_size, model, available,
          device_cache, lifecycle, op, prev_op, prev_outcome, pre, outcome,
          arg, ret_obj, ret_flag, ret_device, steps>>

topology == <<global_rank, local_rank, world_size>>
owned == <<device, global_rank, local_rank, world_size, model, device_cache>>

\* ------------------------------------------------------ pure operations

\* a root_device that reports where the model currently resides
root_device_FromModel == model

\* root_device property
root_device == device

\* on_tpu property
on_tpu == root_device.type = "xla" /\ available

\* on_gpu property
on_gpu == root_device.type = "cuda" /\ available

\* an is_global_zero that holds only while the strategy is set up
is_global_zero_WhileReady == global_rank = 0 /\ lifecycle = "Ready"

\* is_global_zero property
is_global_zero == TRUE

\* a reduce that sums the value with itself when asked for a sum
reduce_Summing(tensor, reduce_op) ==
    IF reduce_op = "sum" THEN tensor + tensor ELSE tensor

\* reduce(tensor, *args, **kwargs)
reduce(tensor, reduce_op) == tensor

\* all_gather(tensor, group, sync_grads)
all_gather(tensor, group, sync_grads) == tensor

\* a broadcast that delivers only what rank 0 sends
broadcast_FromZeroOnly(obj, src) == IF src = 0 THEN obj ELSE NoObj

\* broadcast(obj, src)
broadcast(obj, src) == obj

\* the lifecycle state machine of the strategy contract
AfterSetup(l) == IF l = "Configured" THEN "Ready" ELSE l
AfterTeardown(l) == "TornDown"

\* self.model.to(d) succeeds when a model is bound and d is usable
CanMoveTo(d) == model # NoModel /\ (d.type = "cpu" \/ available)

\* the caching allocator holds memory once parameters were placed on an accelerator
CacheAfterMove(d) == IF d.type = "cpu" THEN device_cache ELSE "held"

\* the record of a call: which method, in which lifecycle state, how it ended
Called(name, how, a, r, f, d, s) ==
    /\ op' = name
    /\ prev_op' = op
    /\ prev_outcome' = outcome
    /\ pre' = lifecycle
    /\ outcome' = how
    /\ arg' = a
    /\ ret_obj' = r
    /\ ret_flag' = f
    /\ ret_device' = d
    /\ steps' = s

\* an event that is not a method of the strategy
Event(name) == Called(name, "none", NoObj, NoObj, FALSE, NoDevice, <<>>)

\* the step the base class's setup hook contributes
BaseSetup == <<"base_setup">>

\* the step the base class's teardown hook contributes
BaseTeardown == <<"base_teardown">>

\* lightning_module property of the base class: the bound model, or None
lightning_module == model

\* a constructor that takes the local rank from the device index
Init_RankFromIndex ==
    /\ device \in Devices
    /\ global_rank = 0
    /\ local_rank = device.index
    /\ world_size = 1
    /\ model = NoModel
    /\ available \in BOOLEAN
    /\ device_cache = "empty"
    /\ lifecycle = "Configured"
    /\ op = "init"
    /\ prev_op = "init"
    /\ prev_outcome = "none"
    /\ pre = "Configured"
    /\ outcome = "none"
    /\ arg = NoObj
    /\ ret_obj = NoObj
    /\ ret_flag = FALSE
    /\ ret_device = NoDevice
    /\ steps = <<>>

\* ------------------------------------------------------------------- Init
Init ==
    /\ device \in Devices
    /\ global_rank = 0
    /\ local_rank = 0
    /\ world_size = 1
    /\ model = NoModel
    /\ available \in BOOLEAN
    /\ device_cache = "empty"
    /\ lifecycle = "Configured"
    /\ op = "init"
    /\ prev_op = "init"
    /\ prev_outcome = "none"
    /\ pre = "Configured"
    /\ outcome = "none"
    /\ arg = NoObj
    /\ ret_obj = NoObj
    /\ ret_flag = FALSE
    /\ ret_device = NoDevice
    /\ steps = <<>>

\* ---------------------------------------------------------------- actions

\* the orchestrator binds a model, resident on any device, to the strategy
Connect ==
    \E d \in Devices :
        /\ model' = d
        /\ device_cache' = CacheAfterMove(d)
        /\ Event("connect")
        /\ UNCHANGED <<device, topology, available, lifecycle>>

\* the accelerator runtime becomes usable or unusable
HardwareChange ==
    /\ available' = ~available
    /\ Event("hardware")
    /\ UNCHANGED <<device, topology, model, device_cache, lifecycle>>

Reduce ==
    \E tensor \in Objects, reduce_op \in ReduceOps :
        /\ Called("reduce", "returned", tensor, reduce(tensor, reduce_op),
                  FALSE, NoDevice, <<>>)
        /\ UNCHANGED <<owned, available, lifecycle>>

AllGather ==
    \E tensor \in Objects, group \in Groups, sync_grads \in BOOLEAN :
        /\ Called("all_gather", "returned", tensor,
                  all_gather(tensor, group, sync_grads), FALSE, NoDevice, <<>>)
        /\ UNCHANGED <<owned, available, lifecycle>>

Broadcast ==
    \E obj \in Objects, src \in Ranks :
        /\ Called("broadcast", "returned", obj, broadcast(obj, src),
                  FALSE, NoDevice, <<>>)
        /\ UNCHANGED <<owned, available, lifecycle>>

Barrier ==
    /\ Called("barrier", "returned", NoObj, NoObj, FALSE, NoDevice, <<>>)
    /\ UNCHANGED <<owned, available, lifecycle>>

RootDevice ==
    /\ Called("root_device", "returned", NoObj, NoObj, FALSE, root_device, <<>>)
    /\ UNCHANGED <<owned, available, lifecycle>>

IsGlobalZero ==
    /\ Called("is_global_zero", "returned", NoObj, NoObj, is_global_zero,
              NoDevice, <<>>)
    /\ UNCHANGED <<owned, available, lifecycle>>

OnGpu ==
    /\ Called("on_gpu", "returned", NoObj, NoObj, on_gpu, NoDevice, <<>>)
    /\ UNCHANGED <<owned, available, lifecycle>>

OnTpu ==
    /\ Called("on_tpu", "returned", NoObj, NoObj, on_tpu, NoDevice, <<>>)
    /\ UNCHANGED <<owned, available, lifecycle>>

\* a model_to_device that refuses a model already resident on root_device
ModelToDevice_RefusingResident ==
    /\ IF CanMoveTo(root_device) /\ model # root_device
       THEN /\ model' = root_device
            /\ device_cache' = CacheAfterMove(root_device)
            /\ Called("model_to_device", "returned", NoObj, NoObj, FALSE,
                      NoDevice, <<"to_device">>)
       ELSE /\ Called("model_to_device", "raised", NoObj, NoObj, FALSE,
                      NoDevice, <<>>)
            /\ UNCHANGED <<model, device_cache>>
    /\ UNCHANGED <<device, topology, available, lifecycle>>

\* model_to_device(): self.model.to(self.root_device)
ModelToDevice ==
    /\ IF CanMoveTo(root_device)
       THEN /\ model' = root_device
            /\ device_cache' = CacheAfterMove(root_device)
            /\ Called("model_to_device", "returned", NoObj, NoObj, FALSE,
                      NoDevice, <<"to_device">>)
       ELSE /\ Called("model_to_device", "raised", NoObj, NoObj, FALSE,
                      NoDevice, <<>>)
            /\ UNCHANGED <<model, device_cache>>
    /\ UNCHANGED <<device, topology, available, lifecycle>>

\* a setup that runs the base hook before placing the model
Setup_HookFirst ==
    /\ IF CanMoveTo(root_device)
       THEN /\ model' = root_device
            /\ device_cache' = CacheAfterMove(root_device)
            /\ lifecycle' = AfterSetup(lifecycle)
            /\ Called("setup", "returned", NoObj, NoObj, FALSE, NoDevice,
                      BaseSetup \o <<"to_device">>)
       ELSE /\ Called("setup", "raised", NoObj, NoObj, FALSE, NoDevice,
                      BaseSetup)
            /\ UNCHANGED <<model, device_cache, lifecycle>>
    /\ UNCHANGED <<device, topology, available>>

\* setup(trainer): model_to_device(), then the base class's setup
Setup ==
    /\ IF CanMoveTo(root_device)
       THEN /\ model' = root_device
            /\ device_cache' = CacheAfterMove(root_device)
            /\ lifecycle' = AfterSetup(lifecycle)
            /\ Called("setup", "returned", NoObj, NoObj, FALSE, NoDevice,
                      <<"to_device">> \o BaseSetup)
       ELSE /\ Called("setup", "raised", NoObj, NoObj, FALSE, NoDevice, <<>>)
            /\ UNCHANGED <<model, device_cache, lifecycle>>
    /\ UNCHANGED <<device, topology, available>>

\* teardown(): the base class's teardown, then on a GPU the model goes to
\* host and the CUDA cache is emptied; None has no cpu() method
Teardown ==
    /\ lifecycle' = AfterTeardown(lifecycle)
    /\ IF on_gpu
       THEN IF lightning_module # NoModel
            THEN /\ model' = CpuDevice
                 /\ device_cache' = "empty"
                 /\ Called("teardown", "returned", NoObj, NoObj, FALSE,
                           NoDevice, BaseTeardown \o <<"cpu", "empty_cache">>)
            ELSE /\ Called("teardown", "raised", NoObj, NoObj, FALSE,
                           NoDevice, BaseTeardown)
                 /\ UNCHANGED <<model, device_cache>>
       ELSE /\ Called("teardown", "returned", NoObj, NoObj, FALSE, NoDevice,
                      BaseTeardown)
            /\ UNCHANGED <<model, device_cache>>
    /\ UNCHANGED <<device, topology, available>>

Next ==
    \/ Connect
    \/ HardwareChange
    \/ Reduce
    \/ AllGather
    \/ Broadcast
    \/ Barrier
    \/ RootDevice
    \/ IsGlobalZero
    \/ OnGpu
    \/ OnTpu
    \/ ModelToDevice
    \/ Setup
    \/ Teardown

Spec == Init /\ [][Next]_vars

\* ------------------------------------------------------------ properties

GuardedOps == {"reduce", "all_gather", "broadcast", "barrier", "model_to_device"}
ReadOnlyOps == {"reduce", "all_gather", "broadcast", "barrier", "root_device",
                "is_global_zero"}
Range(s) == {s[i] : i \in 1 .. Len(s)}

\* C1: a collective or placement operation (reduce, all_gather, broadcast,
\* barrier, model_to_device) called while the strategy is not Ready, i.e.
\* before setup or after teardown, signals an error instead of returning.
C1_LifecycleViolationSignalled ==
    (op \in GuardedOps /\ pre # "Ready") => outcome = "raised"

\* C2: after teardown of a set-up strategy whose root device is any non-CPU
\* device, the model is on host memory and the device-side cache is
\* released, whatever the device kind and the availability answer.
C2_TeardownReleasesAccelerator ==
    (op = "teardown" /\ pre = "Ready" /\ device.type # "cpu")
        => (model.type = "cpu" /\ device_cache = "empty")

\* C3: teardown never raises, in any lifecycle state: not on a second call,
\* not when setup was never called and no model is bound, accelerator or not.
C3_TeardownNeverRaises ==
    op = "teardown" => outcome = "returned"

\* C4: global_rank = 0, local_rank = 0 and world_size = 1 in every reachable
\* state, from construction onward and across every sequence of calls.
C4_TopologyInvariant ==
    global_rank = 0 /\ local_rank = 0 /\ world_size = 1

C4_Witness ==
    /\ op = "teardown"
    /\ pre = "Ready"
    /\ prev_op \in GuardedOps
    /\ global_rank = 0 /\ local_rank = 0 /\ world_size = 1

\* C5: on a Ready strategy reduce returns exactly its input, for every input
\* and every reduction operator; the operator never influences the result.
C5_ReduceIdentity ==
    /\ (op = "reduce" /\ pre = "Ready") => (outcome = "returned" /\ ret_obj = arg)
    /\ \A t \in Objects : \A o \in ReduceOps : reduce(t, o) = t

C5_Witness ==
    op = "reduce" /\ pre = "Ready" /\ outcome = "returned" /\ arg = 1 /\ ret_obj = 1

\* C6: on a Ready strategy all_gather returns its input for every tensor,
\* group and sync_grads value, and broadcast returns its input for every
\* object and every source rank, also a source rank other than 0.
C6_GatherBroadcastIdentity ==
    /\ (op \in {"all_gather", "broadcast"} /\ pre = "Ready")
           => (outcome = "returned" /\ ret_obj = arg)
    /\ \A t \in Objects : \A g \in Groups : \A sg \in BOOLEAN :
           all_gather(t, g, sg) = t
    /\ \A t \in Objects : \A src \in Ranks : broadcast(t, src) = t

C6_Witness ==
    /\ op = "broadcast" /\ pre = "Ready" /\ arg = 1 /\ ret_obj = 1
    /\ prev_op = "all_gather" /\ prev_outcome = "returned"

\* C7: model_to_device is idempotent: a second call right after a successful
\* one returns without error, leaves the model on root_device as the first
\* call did, and changes nothing else of the strategy.
C7_ModelToDeviceIdempotent ==
    /\ []((op = "model_to_device" /\ prev_op = "model_to_device"
              /\ prev_outcome = "returned")
            => (outcome = "returned" /\ model = root_device))
    /\ [][(op = "model_to_device" /\ outcome = "returned"
              /\ op' = "model_to_device")
            => UNCHANGED <<owned, available, lifecycle>>]_vars

C7_Witness ==
    /\ op = "model_to_device" /\ outcome = "returned"
    /\ prev_op = "model_to_device" /\ prev_outcome = "returned"
    /\ model = root_device /\ root_device.type = "cuda"

\* C8: is_global_zero returns true on every call, in every lifecycle state
\* and after any sequence of operations.
C8_IsGlobalZeroAlways ==
    op = "is_global_zero" => (outcome = "returned" /\ ret_flag = TRUE)

C8_Witness ==
    op = "is_global_zero" /\ pre = "TornDown" /\ ret_flag = TRUE

\* C9: setup places the model on root_device before the base setup hook
\* runs; teardown runs the base teardown hook before the model is moved to
\* host and the cache is emptied; when model_to_device fails in setup the
\* failure propagates and the base setup hook is not run.
C9_HookOrder ==
    /\ []((op = "setup" /\ outcome = "returned")
            => (steps = <<"to_device">> \o BaseSetup /\ model = root_device))
    /\ []((op = "setup" /\ outcome = "raised")
            => (Range(BaseSetup) \cap Range(steps) = {}))
    /\ [](op = "teardown"
            => /\ Len(steps) >= 1
               /\ <<steps[1]>> = BaseTeardown
               /\ \A i \in 1 .. Len(steps) :
                      steps[i] \in {"cpu", "empty_cache"} => i > 1)
    /\ [][(op' = "setup" /\ (model = NoModel
                               \/ (root_device.type # "cpu" /\ ~available)))
            => outcome' = "raised"]_vars

C9_Witness ==
    /\ op = "teardown" /\ steps = BaseTeardown \o <<"cpu", "empty_cache">>
    /\ prev_op = "setup" /\ prev_outcome = "returned"

\* C10: reduce, all_gather, barrier, broadcast, root_device and
\* is_global_zero change nothing of the device descriptor, the topology and
\* the model's placement; barrier returns; root_device returns the device
\* given at construction for the whole lifetime, also after teardown.
C10_ReadOnlyFrame ==
    /\ [][op' \in ReadOnlyOps => UNCHANGED <<owned, available, lifecycle>>]_vars
    /\ [][device' = device]_vars
    /\ [](op = "barrier" => outcome = "returned")
    /\ [](op = "root_device" => (outcome = "returned" /\ ret_device = device))

C10_Witness ==
    /\ op = "root_device" /\ pre = "TornDown" /\ ret_device = device
    /\ device.type = "cuda" /\ model = CpuDevice /\ prev_op = "teardown"

====
